---- MODULE Spec2Model ----
(***************************************************************************)
(* Model of teste.py: the Streamlit tool that registers companies (daily   *)
(* rate, base days) in empresas_cadastradas.json, builds per-employee      *)
(* lists of entitlement and absence periods, computes the base-days        *)
(* shortfall deduction and keeps a list of settlement records.             *)
(*                                                                         *)
(* Monetary amounts are integer cents.  Dates are proleptic Gregorian      *)
(* ordinals (date.toordinal()), so date + timedelta(days=1) is +1 and      *)
(* date.max is ordinal 3652059.  Texts are sequences of characters.        *)
(***************************************************************************)
EXTENDS Integers, Sequences, FiniteSets, TLC

VARIABLES
    fase,                       \* position of the function harnesses; "sessao" in a session
    entrada,                    \* arguments handed to the function under test
    saida,                      \* what the first call returned
    saida2,                     \* what the second call returned
    arquivo,                    \* empresas_cadastradas.json on disk
    periodos_direito_temp,      \* st.session_state.periodos_direito_temp
    periodos_afastamento_temp,  \* st.session_state.periodos_afastamento_temp
    ultimo_calculo,             \* st.session_state._ultimo_calculo: a reference, 0 when absent
    calculos,                   \* st.session_state.calculos: a list of references
    heap,                       \* the record objects the references point to
    msgs,                       \* what the last action told the user on the registry page
    carga,                      \* the last carregar_empresas call: the file it saw, what it returned
    escrita,                    \* the salvar_empresas call of the last action, if any
    acoes,                      \* user actions so far that changed the session or wrote the file
    falhas                      \* failures of a write the environment may still cause

harness == <<fase, entrada, saida, saida2>>
sessao == <<periodos_direito_temp, periodos_afastamento_temp, ultimo_calculo, calculos, heap>>
tela == <<msgs, carga, escrita>>
vars == <<harness, arquivo, sessao, tela, acoes, falhas>>

(* None, and str(d) of a date d, as stored in the date fields of an item. *)
Nulo == <<>>
str(d) == <<d>>

(***************************************************************************)
(* Bounds of the model.                                                    *)
(***************************************************************************)
JanelaDatas == 14               \* dates drawn from the first and last JanelaDatas days
MaxPeriodos == 2                \* longest item list handed to the calculator harness
MaxDiasItem == 2                \* largest 'dias' of an item in the calculator harness
MaxAcoes == 7                   \* state-changing user actions in one session
MaxFalhas == 2                  \* failed or interrupted writes in one session

(***************************************************************************)
(* datetime.date: ordinal 1 is Monday 0001-01-01; date.max is 9999-12-31.  *)
(***************************************************************************)
MAXORDINAL == 3652059

Retorno(v) == [exc |-> "", valor |-> v]
Levanta(e) == [exc |-> e, valor |-> 0]

weekday(d) == (d + 6) % 7

(***************************************************************************)
(* contar_dias_uteis, lines 43-60.  The while loop is the recursion; the   *)
(* increment of line 58 raises OverflowError past date.max.                *)
(***************************************************************************)
SomaUmDia(data_atual) ==
    IF data_atual + 1 > MAXORDINAL
    THEN Levanta("OverflowError")
    ELSE Retorno(data_atual + 1)

RECURSIVE ContarLaco(_, _, _)
ContarLaco(data_atual, data_fim, dias_uteis) ==
    IF data_atual <= data_fim
    THEN LET n == IF weekday(data_atual) < 5 THEN dias_uteis + 1 ELSE dias_uteis
             prox == SomaUmDia(data_atual)
         IN  IF prox.exc # "" THEN prox
             ELSE ContarLaco(prox.valor, data_fim, n)
    ELSE Retorno(dias_uteis)

contar_dias_uteis(data_inicio, data_fim) ==
    IF data_inicio > data_fim
    THEN Retorno(0)
    ELSE ContarLaco(data_inicio, data_fim, 0)

(***************************************************************************)
(* calcular_desconto_total, lines 62-99.                                   *)
(***************************************************************************)
RECURSIVE SomaCampo(_, _)
SomaCampo(lista, campo) ==
    IF lista = <<>> THEN 0
    ELSE Head(lista)[campo] + SomaCampo(Tail(lista), campo)

Max(a, b) == IF a >= b THEN a ELSE b

DiasTrabalhados(total_dias_direito, total_dias_ausentes) ==
    total_dias_direito - total_dias_ausentes

(* Faulty variants of DiasADescontar: the subtraction the wrong way round; no deduction
   when nothing was worked. *)
DiasADescontar_Invertido(dias_trabalhados, dias_base) ==
    LET dias_a_descontar == IF dias_trabalhados >= dias_base
                            THEN 0
                            ELSE dias_trabalhados - dias_base
    IN  Max(0, dias_a_descontar)

DiasADescontar_SoComTrabalho(dias_trabalhados, dias_base) ==
    LET dias_a_descontar == IF dias_trabalhados >= dias_base \/ dias_trabalhados <= 0
                            THEN 0
                            ELSE dias_base - dias_trabalhados
    IN  Max(0, dias_a_descontar)

DiasADescontar(dias_trabalhados, dias_base) ==
    LET dias_a_descontar == IF dias_trabalhados >= dias_base
                            THEN 0
                            ELSE dias_base - dias_trabalhados
    IN  Max(0, dias_a_descontar)

ValorADescontar(dias_a_descontar, valor_diario) ==
    dias_a_descontar * valor_diario

(* Faulty variant of ValorFinal: floored at zero. *)
ValorFinal_ComPiso(total_valor_direito, valor_a_descontar) ==
    Max(0, total_valor_direito - valor_a_descontar)

ValorFinal(total_valor_direito, valor_a_descontar) ==
    total_valor_direito - valor_a_descontar

calcular_desconto_total(periodos_direito, periodos_afastamento, dias_base, valor_diario) ==
    LET total_dias_direito  == SomaCampo(periodos_direito, "dias")
        total_valor_direito == SomaCampo(periodos_direito, "valor")
        total_dias_ausentes == SomaCampo(periodos_afastamento, "dias")
        dias_trabalhados    == DiasTrabalhados(total_dias_direito, total_dias_ausentes)
        dias_a_descontar    == DiasADescontar(dias_trabalhados, dias_base)
        valor_a_descontar   == ValorADescontar(dias_a_descontar, valor_diario)
        valor_final         == ValorFinal(total_valor_direito, valor_a_descontar)
    IN  [total_dias_direito  |-> total_dias_direito,
         total_valor_direito |-> total_valor_direito,
         total_dias_ausentes |-> total_dias_ausentes,
         dias_trabalhados    |-> dias_trabalhados,
         dias_a_descontar    |-> dias_a_descontar,
         valor_a_descontar   |-> valor_a_descontar,
         valor_final         |-> valor_final]

(***************************************************************************)
(* Texts.  str.strip() removes leading and trailing blanks; a str is true  *)
(* when it is not empty.                                                   *)
(***************************************************************************)
RECURSIVE lstrip(_)
lstrip(s) == IF s # <<>> /\ Head(s) = " " THEN lstrip(Tail(s)) ELSE s

RECURSIVE rstrip(_)
rstrip(s) ==
    IF s # <<>> /\ s[Len(s)] = " " THEN rstrip(SubSeq(s, 1, Len(s) - 1)) ELSE s

strip(s) == rstrip(lstrip(s))

bool(s) == s # <<>>

(***************************************************************************)
(* A dict of companies keeps insertion order: a sequence of entries with   *)
(* distinct names.                                                         *)
(***************************************************************************)
Empresa(nome, valor_diario, dias_base) ==
    [nome |-> nome, valor_diario |-> valor_diario, dias_base |-> dias_base]

Nomes(empresas) == {empresas[i].nome : i \in 1 .. Len(empresas)}

Posicao(empresas, nome) ==
    CHOOSE i \in 1 .. Len(empresas) : empresas[i].nome = nome

DictGet(empresas, nome) == empresas[Posicao(empresas, nome)]

DictSet(empresas, nome, valor_diario, dias_base) ==
    IF nome \in Nomes(empresas)
    THEN [empresas EXCEPT ![Posicao(empresas, nome)] =
              Empresa(nome, valor_diario, dias_base)]
    ELSE Append(empresas, Empresa(nome, valor_diario, dias_base))

DictDel(empresas, nome) ==
    LET p == Posicao(empresas, nome)
    IN  SubSeq(empresas, 1, p - 1) \o SubSeq(empresas, p + 1, Len(empresas))

(***************************************************************************)
(* The registry file: whether it exists, whether it can be opened for      *)
(* reading, and its content as the tokens json.dump writes.                *)
(***************************************************************************)
SemPar == Empresa(<<>>, 0, 0)
Abre == [t |-> "{", par |-> SemPar]
Fecha == [t |-> "}", par |-> SemPar]
Par(e) == [t |-> "par", par |-> e]
Lixo == [t |-> "lixo", par |-> SemPar]

Arquivo(existe, legivel, conteudo) ==
    [existe |-> existe, legivel |-> legivel, conteudo |-> conteudo]

json_dump(empresas) ==
    <<Abre>> \o [i \in 1 .. Len(empresas) |-> Par(empresas[i])] \o <<Fecha>>

json_load(conteudo) ==
    LET n == Len(conteudo)
    IN  IF /\ n >= 2
           /\ conteudo[1] = Abre
           /\ conteudo[n] = Fecha
           /\ \A i \in 2 .. n - 1 : conteudo[i].t = "par"
        THEN [exc |-> "", valor |-> [i \in 1 .. n - 2 |-> conteudo[i + 1].par]]
        ELSE [exc |-> "JSONDecodeError", valor |-> <<>>]

(* Faulty variant of carregar_empresas: no os.path.exists test, so a missing file is
   opened, open raises and the error is shown. *)
carregar_empresas_SemExists(arq) ==
    IF arq.existe /\ arq.legivel /\ json_load(arq.conteudo).exc = ""
    THEN [retorno |-> json_load(arq.conteudo).valor, erro |-> FALSE, exc |-> ""]
    ELSE [retorno |-> <<>>, erro |-> TRUE, exc |-> ""]

(* carregar_empresas, lines 18-27: what it returns, whether it called st.error,
   and the exception it lets through (none: line 24 catches every Exception). *)
carregar_empresas(arq) ==
    IF arq.existe
    THEN IF ~arq.legivel
         THEN [retorno |-> <<>>, erro |-> TRUE, exc |-> ""]
         ELSE LET r == json_load(arq.conteudo)
              IN  IF r.exc # ""
                  THEN [retorno |-> <<>>, erro |-> TRUE, exc |-> ""]
                  ELSE [retorno |-> r.valor, erro |-> FALSE, exc |-> ""]
    ELSE [retorno |-> <<>>, erro |-> FALSE, exc |-> ""]

(***************************************************************************)
(* salvar_empresas, lines 29-37.  open(..., 'w') truncates the file, then  *)
(* json.dump writes the tokens one after the other.  The environment       *)
(* decides how the call ends:                                              *)
(*   "ok"             every token is written;                              *)
(*   "falha_abrir"    open raises, the file is untouched;                  *)
(*   "falha_escrever" a write raises after n tokens;                       *)
(*   "crash"          the process dies after n tokens.                     *)
(***************************************************************************)
Desfechos == {"ok", "falha_abrir", "falha_escrever", "crash"}

Truncado(arq, conteudo) ==
    Arquivo(TRUE, IF arq.existe THEN arq.legivel ELSE TRUE, conteudo)

salvar_empresas(arq, empresas, desfecho, n) ==
    LET texto == json_dump(empresas)
    IN  CASE desfecho = "ok" ->
                [arquivo |-> Truncado(arq, texto), retorno |-> TRUE, erro |-> FALSE]
          [] desfecho = "falha_abrir" ->
                [arquivo |-> arq, retorno |-> FALSE, erro |-> TRUE]
          [] desfecho = "falha_escrever" ->
                [arquivo |-> Truncado(arq, SubSeq(texto, 1, n)),
                 retorno |-> FALSE, erro |-> TRUE]
          [] desfecho = "crash" ->
                [arquivo |-> Truncado(arq, SubSeq(texto, 1, n)),
                 retorno |-> FALSE, erro |-> FALSE]

(***************************************************************************)
(* Settlement records and the objects of the session.                      *)
(***************************************************************************)
ItemDireito(mes, dias, valor, data_inicio, data_fim) ==
    [mes |-> mes, dias |-> dias, valor |-> valor,
     data_inicio |-> data_inicio, data_fim |-> data_fim]

ItemAfastamento(descricao, dias, data_inicio, data_fim) ==
    [descricao |-> descricao, dias |-> dias,
     data_inicio |-> data_inicio, data_fim |-> data_fim]

strftime(d) == <<d>>

Registro(nome_funcionario, empresa, valor_diario, dias_base, periodos_direito, periodos_afastamento, totais, observacao, data_reembolso) ==
    [nome_funcionario     |-> nome_funcionario,
     empresa              |-> empresa,
     valor_diario         |-> valor_diario,
     dias_base            |-> dias_base,
     periodos_direito     |-> periodos_direito,
     periodos_afastamento |-> periodos_afastamento,
     totais               |-> totais,
     observacao           |-> observacao,
     data_reembolso       |-> data_reembolso]

Refs == 1 .. MaxAcoes

Referidos(ultimo, lista) ==
    {lista[i] : i \in 1 .. Len(lista)} \cup (IF ultimo = 0 THEN {} ELSE {ultimo})

(* The heap maps the live references to their objects: unreferenced objects
   are collected. *)
SemObjetos == <<>>

Guarda(h, ref, objeto) ==
    [r \in DOMAIN h \cup {ref} |-> IF r = ref THEN objeto ELSE h[r]]

Coleta(h, ultimo, lista) ==
    [r \in Referidos(ultimo, lista) |-> h[r]]

SemEscrita == [desfecho |-> "nenhuma", antes |-> <<>>, novo |-> <<>>]

(* What is kept of a salvar_empresas call: how it ended and, when the process
   died in it, the mapping on disk before it and the mapping being written. *)
Escrita(desfecho, arq, novo) ==
    [desfecho |-> desfecho,
     antes    |-> IF desfecho = "crash" THEN carregar_empresas(arq).retorno ELSE <<>>,
     novo     |-> IF desfecho = "crash" THEN novo ELSE <<>>]

Carga(arq) ==
    LET c == carregar_empresas(arq)
    IN  [visto |-> arq, retorno |-> c.retorno, erro |-> c.erro, exc |-> c.exc]

SemCarga ==
    [visto |-> Arquivo(FALSE, TRUE, <<>>), retorno |-> <<>>, erro |-> FALSE, exc |-> ""]

SemSessao ==
    /\ periodos_direito_temp = <<>>
    /\ periodos_afastamento_temp = <<>>
    /\ ultimo_calculo = 0
    /\ calculos = <<>>
    /\ heap = SemObjetos
    /\ msgs = {}
    /\ carga = SemCarga
    /\ escrita = SemEscrita
    /\ acoes = 0
    /\ falhas = 0
    /\ arquivo = Arquivo(FALSE, TRUE, <<>>)

(***************************************************************************)
(* Harness of contar_dias_uteis: every pair of dates of the two windows    *)
(* (the first and the last JanelaDatas days of the calendar) whose loop is *)
(* short, and every pair with data_inicio > data_fim.                      *)
(***************************************************************************)
DatasHarness == (1 .. JanelaDatas) \cup ((MAXORDINAL - JanelaDatas + 1) .. MAXORDINAL)

ParesDeDatas ==
    {par \in [data_inicio : DatasHarness, data_fim : DatasHarness] :
        par.data_fim - par.data_inicio < JanelaDatas}

SemRetorno == [exc |-> "pendente", valor |-> 0]

InitDias ==
    /\ fase = "dias"
    /\ entrada \in ParesDeDatas
    /\ saida = SemRetorno
    /\ saida2 = SemRetorno
    /\ SemSessao

ChamarContar ==
    /\ fase = "dias"
    /\ saida' = contar_dias_uteis(entrada.data_inicio, entrada.data_fim)
    /\ fase' = "dias_fim"
    /\ UNCHANGED <<entrada, saida2, arquivo, sessao, tela, acoes, falhas>>

NextDias == ChamarContar

SpecDias == InitDias /\ [][NextDias]_vars

(***************************************************************************)
(* Harness of calcular_desconto_total: item lists of at most MaxPeriodos   *)
(* items, and the end-to-end scenario of the specification.                *)
(***************************************************************************)
ValoresHarness == {0, 100}
RatesHarness == {0, 150}
DiasBaseHarness == -1 .. 2

DireitosHarness ==
    {ItemDireito(<<"N">>, d, v, Nulo, Nulo) : d \in 0 .. MaxDiasItem, v \in ValoresHarness}

AfastamentosHarness ==
    {ItemAfastamento(<<"D">>, d, Nulo, Nulo) : d \in 0 .. MaxDiasItem}

SeqAte(S, n) == UNION {[1 .. k -> S] : k \in 0 .. n}

Cenario ==
    [periodos_direito     |-> <<ItemDireito(<<"N">>, 21, 166304, Nulo, Nulo)>>,
     periodos_afastamento |-> <<ItemAfastamento(<<"D">>, 5, Nulo, Nulo)>>,
     dias_base            |-> 21,
     valor_diario         |-> 7924]

EntradasCalculo ==
    [periodos_direito     : SeqAte(DireitosHarness, MaxPeriodos),
     periodos_afastamento : SeqAte(AfastamentosHarness, MaxPeriodos),
     dias_base            : DiasBaseHarness,
     valor_diario         : RatesHarness] \cup {Cenario}

Chamada(e) ==
    calcular_desconto_total(e.periodos_direito, e.periodos_afastamento,
                            e.dias_base, e.valor_diario)

InitCalc ==
    /\ fase = "calc"
    /\ entrada \in EntradasCalculo
    /\ saida = SemRetorno
    /\ saida2 = SemRetorno
    /\ SemSessao

ChamarCalcular ==
    /\ fase = "calc"
    /\ saida' = Chamada(entrada)
    /\ fase' = "calc_1"
    /\ UNCHANGED <<entrada, saida2, arquivo, sessao, tela, acoes, falhas>>

ChamarCalcularDeNovo ==
    /\ fase = "calc_1"
    /\ saida2' = Chamada(entrada)
    /\ fase' = "calc_2"
    /\ UNCHANGED <<entrada, saida, arquivo, sessao, tela, acoes, falhas>>

NextCalc == ChamarCalcular \/ ChamarCalcularDeNovo

SpecCalc == InitCalc /\ [][NextCalc]_vars

(***************************************************************************)
(* A session.  Each action is one user interaction: one run of main()      *)
(* (carregar_empresas, then the page's handler) and, where the handler     *)
(* calls st.rerun(), the run that follows it.                              *)
(***************************************************************************)
NomesDigitados == {<<>>, <<" ">>, <<"X">>}
ValoresDiarios == {100, 150}
DiasBase == {1}

ArquivosIniciais ==
    {Arquivo(FALSE, TRUE, <<>>),
     Arquivo(TRUE, TRUE, json_dump(<<Empresa(<<"X">>, 100, 1)>>))}

ArquivosRegistro ==
    {Arquivo(FALSE, TRUE, <<>>),
     Arquivo(TRUE, TRUE, json_dump(<<Empresa(<<"X">>, 100, 1), Empresa(<<"Y">>, 150, 1)>>)),
     Arquivo(TRUE, FALSE, json_dump(<<Empresa(<<"X">>, 100, 1)>>)),
     Arquivo(TRUE, TRUE, <<Lixo>>)}

Init ==
    /\ fase = "sessao"
    /\ entrada = SemRetorno
    /\ saida = SemRetorno
    /\ saida2 = SemRetorno
    /\ periodos_direito_temp = <<>>
    /\ periodos_afastamento_temp = <<>>
    /\ ultimo_calculo = 0
    /\ calculos = <<>>
    /\ heap = SemObjetos
    /\ msgs = {}
    /\ carga = SemCarga
    /\ escrita = SemEscrita
    /\ acoes = 0
    /\ falhas = 0
    /\ arquivo \in ArquivosIniciais

ErroCarregar == "Erro ao carregar empresas"
ErroSalvar == "Erro ao salvar empresas"

MsgsCarga(arq) == IF carregar_empresas(arq).erro THEN {ErroCarregar} ELSE {}

(* The end of an action: the new session state, the messages of the run and,
   after st.rerun(), the load and the messages of the run that follows. *)
Fim(arq, direito, afastamento, ultimo, lista, h, mensagens, esc, rerun) ==
    /\ acoes < MaxAcoes
    /\ arquivo' = arq
    /\ periodos_direito_temp' = direito
    /\ periodos_afastamento_temp' = afastamento
    /\ ultimo_calculo' = ultimo
    /\ calculos' = lista
    /\ heap' = Coleta(h, ultimo, lista)
    /\ msgs' = MsgsCarga(arquivo) \cup mensagens
                 \cup (IF rerun THEN MsgsCarga(arq) ELSE {})
    /\ carga' = IF rerun THEN Carga(arq) ELSE Carga(arquivo)
    /\ escrita' = esc
    /\ acoes' = acoes + 1
    /\ falhas' = IF esc.desfecho \in {"nenhuma", "ok"} THEN falhas ELSE falhas - 1
    /\ UNCHANGED harness

(* The handler changed nothing and did not rerun. *)
SemEfeito(mensagens) ==
    /\ UNCHANGED <<acoes, falhas, arquivo, sessao, harness>>
    /\ escrita' = SemEscrita
    /\ msgs' = MsgsCarga(arquivo) \cup mensagens
    /\ carga' = Carga(arquivo)

(* The process died inside salvar_empresas: the session is lost. *)
Queda(arq, esc) ==
    /\ acoes < MaxAcoes
    /\ arquivo' = arq
    /\ periodos_direito_temp' = <<>>
    /\ periodos_afastamento_temp' = <<>>
    /\ ultimo_calculo' = 0
    /\ calculos' = <<>>
    /\ heap' = SemObjetos
    /\ msgs' = {}
    /\ carga' = SemCarga
    /\ escrita' = esc
    /\ acoes' = acoes + 1
    /\ falhas' = falhas - 1
    /\ UNCHANGED harness

(* How a salvar_empresas call of `novo` may end: (desfecho, tokens written). *)
Escritas(novo) ==
    {<<"ok", 0>>} \cup
    IF falhas = 0 THEN {}
    ELSE {<<"falha_abrir", 0>>}
            \cup {<<"falha_escrever", n>> : n \in 0 .. Len(json_dump(novo)) - 1}
            \cup {<<"crash", n>> : n \in 0 .. Len(json_dump(novo))}

(* What carregar_empresas returns at the start of the run, line 626. *)
Empresas == carregar_empresas(arquivo).retorno

(* The form of renderizar_cadastro_empresas, button Salvar/Atualizar. *)
SalvarValido(nome_empresa, valor_diario, dias_base, desfecho, n) ==
    LET empresas == DictSet(Empresas,
                            nome_empresa, valor_diario, dias_base)
        s == salvar_empresas(arquivo, empresas, desfecho, n)
        esc == Escrita(desfecho, arquivo, empresas)
    IN  IF desfecho = "crash"
        THEN Queda(s.arquivo, esc)
        ELSE IF s.retorno
             THEN Fim(s.arquivo, periodos_direito_temp, periodos_afastamento_temp,
                      ultimo_calculo, calculos, heap,
                      {"Empresa salva com sucesso"}, esc, TRUE)
             ELSE Fim(s.arquivo, periodos_direito_temp, periodos_afastamento_temp,
                      ultimo_calculo, calculos, heap,
                      {ErroSalvar}, esc, FALSE)

NomeValido(nome_empresa) == strip(nome_empresa) # <<>>

NomeObrigatorio == "Nome da empresa e obrigatorio"

Salvar(nome_empresa) ==
    IF ~NomeValido(nome_empresa)
    THEN SemEfeito({NomeObrigatorio})
    ELSE \E valor_diario \in ValoresDiarios, dias_base \in DiasBase :
            \E e \in Escritas(DictSet(Empresas, nome_empresa, valor_diario, dias_base)) :
               SalvarValido(nome_empresa, valor_diario, dias_base, e[1], e[2])

SalvarEmpresa ==
    /\ fase = "sessao"
    /\ \E nome_empresa \in NomesDigitados : Salvar(nome_empresa)

(* The same form, button Excluir: the result of salvar_empresas is not read. *)
MsgsExcluir(s) ==
    (IF s.erro THEN {ErroSalvar} ELSE {}) \cup {"Empresa removida"}

ExcluirExistente(nome_empresa, desfecho, n) ==
    LET empresas == DictDel(Empresas, nome_empresa)
        s == salvar_empresas(arquivo, empresas, desfecho, n)
        esc == Escrita(desfecho, arquivo, empresas)
    IN  IF desfecho = "crash"
        THEN Queda(s.arquivo, esc)
        ELSE Fim(s.arquivo, periodos_direito_temp, periodos_afastamento_temp,
                 ultimo_calculo, calculos, heap, MsgsExcluir(s), esc, TRUE)

Excluir(nome_empresa) ==
    IF nome_empresa \in Nomes(Empresas)
    THEN \E e \in Escritas(DictDel(Empresas, nome_empresa)) :
            ExcluirExistente(nome_empresa, e[1], e[2])
    ELSE SemEfeito({})

ExcluirEmpresa ==
    /\ fase = "sessao"
    /\ \E nome_empresa \in NomesDigitados : Excluir(nome_empresa)

(***************************************************************************)
(* renderizar_calculo_individual.  With no company loaded the page shows a *)
(* warning and returns (lines 369-371); otherwise the user picks one of    *)
(* the loaded companies and presses a button.                              *)
(***************************************************************************)
ComEmpresas == fase = "sessao" /\ Empresas # <<>>

CalculoSemEmpresas ==
    /\ fase = "sessao"
    /\ Empresas = <<>>
    /\ SemEfeito({})

Rotulos == {<<>>, <<"N">>}
DiasManuais == {0, 2}
ValoresManuais == {100}
Sexta == 7 * 105703 + 5
DatasInicioDigitadas == {Sexta, Sexta + 2}
DatasFimDigitadas == {Sexta + 1}

(* Form "Períodos de Direito", lines 400-441. *)
(* Faulty variant of DireitoAceito: the days are not tested. *)
DireitoAceito_SemDias(mes_direito, dias_direito) == bool(mes_direito)

DireitoAceito(mes_direito, dias_direito) == bool(mes_direito) /\ dias_direito > 0

AdicionarDireito(mes_direito, dias_direito, valor_direito, data_inicio_dir, data_fim_dir) ==
    IF DireitoAceito(mes_direito, dias_direito)
    THEN Fim(arquivo,
             Append(periodos_direito_temp,
                    ItemDireito(mes_direito, dias_direito, valor_direito,
                                data_inicio_dir, data_fim_dir)),
             periodos_afastamento_temp, ultimo_calculo, calculos, heap,
             {}, SemEscrita, TRUE)
    ELSE SemEfeito({})

DireitoManual(mes_direito, dias_direito, valor_direito) ==
    AdicionarDireito(mes_direito, dias_direito, valor_direito, Nulo, Nulo)

DireitoPorData(mes_direito, empresa_selecionada, data_inicio_dir, data_fim_dir) ==
    LET dados_empresa == DictGet(Empresas, empresa_selecionada)
        dias_direito == contar_dias_uteis(data_inicio_dir, data_fim_dir).valor
        valor_direito == dias_direito * dados_empresa.valor_diario
    IN  AdicionarDireito(mes_direito, dias_direito, valor_direito,
                         str(data_inicio_dir), str(data_fim_dir))

AdicionarDireitoManual ==
    /\ ComEmpresas
    /\ \E mes_direito \in Rotulos, dias_direito \in DiasManuais,
          valor_direito \in ValoresManuais :
          DireitoManual(mes_direito, dias_direito, valor_direito)

AdicionarDireitoPorData ==
    /\ ComEmpresas
    /\ \E mes_direito \in Rotulos, empresa_selecionada \in Nomes(Empresas),
          data_inicio_dir \in DatasInicioDigitadas, data_fim_dir \in DatasFimDigitadas :
          DireitoPorData(mes_direito, empresa_selecionada, data_inicio_dir, data_fim_dir)

(* list.pop(idx) *)
Pop(lista, idx) == SubSeq(lista, 1, idx - 1) \o SubSeq(lista, idx + 1, Len(lista))

RemoverDireito ==
    /\ ComEmpresas
    /\ \E idx \in 1 .. Len(periodos_direito_temp) :
          Fim(arquivo, Pop(periodos_direito_temp, idx), periodos_afastamento_temp,
              ultimo_calculo, calculos, heap, {}, SemEscrita, TRUE)

(* Form "Períodos de Afastamento", lines 459-495. *)
DiasAfastamentoManuais == {0, 1}

(* Faulty variant of AfastamentoAceito: an absence of no days is accepted. *)
AfastamentoAceito_SemDias(descricao_afastamento, dias_afastamento) ==
    bool(descricao_afastamento) /\ dias_afastamento >= 0

AfastamentoAceito(descricao_afastamento, dias_afastamento) ==
    bool(descricao_afastamento) /\ dias_afastamento > 0

AdicionarAfastamento(descricao_afastamento, dias_afastamento, data_inicio_afas, data_fim_afas) ==
    IF AfastamentoAceito(descricao_afastamento, dias_afastamento)
    THEN Fim(arquivo, periodos_direito_temp,
             Append(periodos_afastamento_temp,
                    ItemAfastamento(descricao_afastamento, dias_afastamento,
                                    data_inicio_afas, data_fim_afas)),
             ultimo_calculo, calculos, heap,
             {}, SemEscrita, TRUE)
    ELSE SemEfeito({})

AfastamentoManual(descricao_afastamento, dias_afastamento) ==
    AdicionarAfastamento(descricao_afastamento, dias_afastamento, Nulo, Nulo)

AfastamentoPorData(descricao_afastamento, data_inicio_afas, data_fim_afas) ==
    AdicionarAfastamento(descricao_afastamento,
                         contar_dias_uteis(data_inicio_afas, data_fim_afas).valor,
                         str(data_inicio_afas), str(data_fim_afas))

AdicionarAfastamentoManual ==
    /\ ComEmpresas
    /\ \E descricao_afastamento \in Rotulos, dias_afastamento \in DiasAfastamentoManuais :
          AfastamentoManual(descricao_afastamento, dias_afastamento)

AdicionarAfastamentoPorData ==
    /\ ComEmpresas
    /\ \E descricao_afastamento \in Rotulos,
          data_inicio_afas \in DatasInicioDigitadas, data_fim_afas \in DatasFimDigitadas :
          AfastamentoPorData(descricao_afastamento, data_inicio_afas, data_fim_afas)

RemoverAfastamento ==
    /\ ComEmpresas
    /\ \E idx \in 1 .. Len(periodos_afastamento_temp) :
          Fim(arquivo, periodos_direito_temp, Pop(periodos_afastamento_temp, idx),
              ultimo_calculo, calculos, heap, {}, SemEscrita, TRUE)

(* Button Calcular, lines 520-547.  The dict literal of line 535 is a new
   object: a reference nothing else holds. *)
NomesFuncionario == {<<>>, <<" ">>, <<"A">>}
Observacoes == {<<>>}
Hoje == Sexta

(* Faulty variant of NovoObjeto: the dict _ultimo_calculo already names is updated in
   place instead of a new one being built. *)
NovoObjeto_NoLugar(ultimo, lista) ==
    IF ultimo # 0 THEN ultimo
    ELSE CHOOSE r \in Refs :
            /\ r \notin {lista[i] : i \in 1 .. Len(lista)}
            /\ \A q \in Refs : q < r => q \in {lista[i] : i \in 1 .. Len(lista)}

NovoObjeto(ultimo, lista) ==
    CHOOSE r \in Refs :
        /\ r \notin {lista[i] : i \in 1 .. Len(lista)}
        /\ \A q \in Refs : q < r => q \in {lista[i] : i \in 1 .. Len(lista)}

ErroCalcular(nome_funcionario, direito, afastamento) ==
    IF strip(nome_funcionario) = <<>>
    THEN "Nome do funcionario e obrigatorio"
    ELSE IF direito = <<>>
         THEN "Adicione pelo menos um periodo de direito"
         ELSE IF afastamento = <<>>
              THEN "Adicione pelo menos um periodo de afastamento"
              ELSE ""

Calculo(nome_funcionario, empresa_selecionada, observacao) ==
    LET dados_empresa == DictGet(Empresas, empresa_selecionada)
        erro == ErroCalcular(nome_funcionario, periodos_direito_temp,
                             periodos_afastamento_temp)
        totais == calcular_desconto_total(periodos_direito_temp,
                                          periodos_afastamento_temp,
                                          dados_empresa.dias_base,
                                          dados_empresa.valor_diario)
        novo == NovoObjeto(ultimo_calculo, calculos)
    IN  IF erro # ""
        THEN SemEfeito({})
        ELSE Fim(arquivo, periodos_direito_temp, periodos_afastamento_temp,
                 novo, calculos,
                 Guarda(heap, novo,
                        Registro(nome_funcionario, empresa_selecionada,
                                 dados_empresa.valor_diario, dados_empresa.dias_base,
                                 periodos_direito_temp, periodos_afastamento_temp,
                                 totais, observacao, strftime(Hoje))),
                 {}, SemEscrita, FALSE)

Calcular ==
    /\ ComEmpresas
    /\ \E nome_funcionario \in NomesFuncionario, empresa_selecionada \in Nomes(Empresas),
          observacao \in Observacoes :
          Calculo(nome_funcionario, empresa_selecionada, observacao)

(* Faulty variant of AdicionarAoRelatorio: the last calculation is dropped once it
   is in the report list. *)
AdicionarAoRelatorio_Esquece ==
    /\ ComEmpresas
    /\ IF ultimo_calculo = 0
       THEN SemEfeito({})
       ELSE Fim(arquivo, <<>>, <<>>, 0,
                Append(calculos, ultimo_calculo), heap,
                {}, SemEscrita, TRUE)

(* Button Adicionar ao Relatório, lines 550-560. *)
AdicionarAoRelatorio ==
    /\ ComEmpresas
    /\ IF ultimo_calculo = 0
       THEN SemEfeito({})
       ELSE Fim(arquivo, <<>>, <<>>, ultimo_calculo,
                Append(calculos, ultimo_calculo), heap,
                {}, SemEscrita, TRUE)

(* Button Limpar Tudo, lines 563-570. *)
LimparTudo ==
    /\ ComEmpresas
    /\ Fim(arquivo, <<>>, <<>>, 0, <<>>, heap, {}, SemEscrita, TRUE)

Next ==
    \/ SalvarEmpresa
    \/ ExcluirEmpresa
    \/ CalculoSemEmpresas
    \/ AdicionarDireitoManual
    \/ AdicionarDireitoPorData
    \/ RemoverDireito
    \/ AdicionarAfastamentoManual
    \/ AdicionarAfastamentoPorData
    \/ RemoverAfastamento
    \/ Calcular
    \/ AdicionarAoRelatorio
    \/ LimparTudo

Spec == Init /\ [][Next]_vars

(***************************************************************************)
(* A session on the page "Cadastro de Empresas" with a disk that may fail: *)
(* the registry file may start missing, unreadable or corrupt, and up to   *)
(* MaxFalhas writes may fail or be interrupted.                            *)
(***************************************************************************)
InitRegistro ==
    /\ fase = "sessao"
    /\ entrada = SemRetorno
    /\ saida = SemRetorno
    /\ saida2 = SemRetorno
    /\ periodos_direito_temp = <<>>
    /\ periodos_afastamento_temp = <<>>
    /\ ultimo_calculo = 0
    /\ calculos = <<>>
    /\ heap = SemObjetos
    /\ msgs = {}
    /\ carga = SemCarga
    /\ escrita = SemEscrita
    /\ acoes = 0
    /\ falhas = MaxFalhas
    /\ arquivo \in ArquivosRegistro

NextRegistro ==
    \/ SalvarEmpresa
    \/ ExcluirEmpresa
    \/ CalculoSemEmpresas

SpecRegistro == InitRegistro /\ [][NextRegistro]_vars

(***************************************************************************)
(* gerar_html_relatorio, lines 109-307.  The document is the sequence of   *)
(* its characters; the fixed text of the template is kept as one token per *)
(* tag name or label, between the characters "<" and ">" of its tags.      *)
(* The f-strings insert the fields as they are.                            *)
(***************************************************************************)
Tag(nome) == <<"<", nome, ">">>

(* str(n) of an int, one token. *)
fmt_int(n) == <<ToString(n)>>

(* The text of a stored date (str(date) or strftime), one token. *)
fmt_data(d) == [i \in DOMAIN d |-> ToString(d[i])]

TresDigitos(n) ==
    <<ToString(n \div 100), ToString((n \div 10) % 10), ToString(n % 10)>>

RECURSIVE Milhares(_)
Milhares(q) ==
    IF q < 1000 THEN <<ToString(q)>>
    ELSE Milhares(q \div 1000) \o <<".">> \o TresDigitos(q % 1000)

(* formatar_real, lines 101-103, of an amount in cents: "R$ 1.234,56". *)
formatar_real(valor) ==
    LET a == IF valor < 0 THEN -valor ELSE valor
    IN  <<"R$ ">> \o (IF valor < 0 THEN <<"-">> ELSE <<>>)
            \o Milhares(a \div 100)
            \o <<",", ToString((a % 100) \div 10), ToString(a % 10)>>

(* str.upper(): letters change case, every other character stays. *)
upper(s) ==
    [i \in DOMAIN s |-> CASE s[i] = "a" -> "A"
                          [] s[i] = "b" -> "B"
                          [] OTHER -> s[i]]

HtmlCabecalho ==
    <<"<", "!DOCTYPE html", ">">> \o Tag("html") \o Tag("head") \o Tag("meta")
        \o Tag("meta") \o Tag("title") \o <<"Relatorio de Descontos">> \o Tag("/title")
        \o Tag("style") \o <<"css">> \o Tag("/style") \o Tag("/head") \o Tag("body")

HtmlRodape == Tag("/body") \o Tag("/html")

HtmlTitulo(calc) ==
    Tag("div") \o Tag("div")
        \o Tag("h2") \o upper(calc.nome_funcionario) \o Tag("/h2")
        \o Tag("p") \o <<"Empresa: ">> \o calc.empresa \o Tag("/p")
        \o Tag("/div")

HtmlCabecalhoTabela(primeira, terceira) ==
    Tag("table") \o Tag("thead") \o Tag("tr")
        \o Tag("th") \o <<primeira>> \o Tag("/th")
        \o Tag("th") \o <<"Dias">> \o Tag("/th")
        \o Tag("th") \o <<terceira>> \o Tag("/th")
        \o Tag("/tr") \o Tag("/thead") \o Tag("tbody")

HtmlDescricao(periodo) ==
    IF periodo.data_inicio # Nulo /\ periodo.data_fim # Nulo
    THEN periodo.descricao \o <<" (">> \o fmt_data(periodo.data_inicio)
            \o <<" a ">> \o fmt_data(periodo.data_fim) \o <<")">>
    ELSE periodo.descricao

HtmlLinhaAfastamento(periodo, calc) ==
    Tag("tr")
        \o Tag("td") \o HtmlDescricao(periodo) \o Tag("/td")
        \o Tag("td") \o fmt_int(periodo.dias) \o <<" dias">> \o Tag("/td")
        \o Tag("td") \o formatar_real(calc.valor_diario) \o Tag("/td")
        \o Tag("/tr")

HtmlLinhaDireito(periodo) ==
    Tag("tr")
        \o Tag("td") \o periodo.mes \o Tag("/td")
        \o Tag("td") \o fmt_int(periodo.dias) \o <<" dias">> \o Tag("/td")
        \o Tag("td") \o formatar_real(periodo.valor) \o Tag("/td")
        \o Tag("/tr")

RECURSIVE HtmlAfastamentos(_, _)
HtmlAfastamentos(lista, calc) ==
    IF lista = <<>> THEN <<>>
    ELSE HtmlLinhaAfastamento(Head(lista), calc) \o HtmlAfastamentos(Tail(lista), calc)

RECURSIVE HtmlDireitos(_)
HtmlDireitos(lista) ==
    IF lista = <<>> THEN <<>>
    ELSE HtmlLinhaDireito(Head(lista)) \o HtmlDireitos(Tail(lista))

HtmlObservacao(calc) ==
    IF bool(calc.observacao)
    THEN Tag("div") \o Tag("strong") \o <<"Observacao:">> \o Tag("/strong")
            \o <<" ">> \o calc.observacao \o Tag("/div")
    ELSE <<>>

HtmlResumo(calc) ==
    Tag("div") \o <<"Total de direito: ">>
        \o formatar_real(calc.totais.total_valor_direito) \o Tag("/div")
        \o Tag("div") \o Tag("strong") \o <<"Valor de direito abatendo o valor descontado:">>
        \o Tag("/strong") \o <<" ">> \o formatar_real(calc.totais.valor_final) \o Tag("br")
        \o Tag("strong") \o <<"Data de reembolso:">> \o Tag("/strong")
        \o <<" ">> \o fmt_data(calc.data_reembolso) \o Tag("/div")
        \o Tag("div") \o Tag("strong") \o <<"Resumo do Calculo:">> \o Tag("/strong") \o Tag("br")
        \o fmt_int(calc.totais.total_dias_direito) \o <<" dias">> \o Tag("br")
        \o fmt_int(calc.totais.total_dias_ausentes) \o <<" dias">> \o Tag("br")
        \o fmt_int(calc.totais.dias_trabalhados) \o <<" dias">> \o Tag("br")
        \o fmt_int(calc.dias_base) \o <<" dias">> \o Tag("br")
        \o fmt_int(calc.totais.dias_a_descontar) \o <<" dias">> \o Tag("br")
        \o formatar_real(calc.valor_diario)
        \o Tag("/div") \o Tag("/div")

HtmlBloco(calc) ==
    HtmlTitulo(calc)
        \o Tag("div") \o <<"PERIODOS DE AFASTAMENTO">> \o Tag("/div")
        \o HtmlCabecalhoTabela("Descricao/Periodo", "Valor Diario")
        \o HtmlAfastamentos(calc.periodos_afastamento, calc)
        \o Tag("/tbody") \o Tag("/table")
        \o HtmlObservacao(calc)
        \o Tag("div") \o <<"SUBTOTAL DE DESCONTO: ">>
        \o fmt_int(calc.totais.total_dias_ausentes) \o <<" dias = ">>
        \o formatar_real(calc.totais.valor_a_descontar) \o Tag("/div")
        \o Tag("div") \o <<"VALORES QUE TEM DIREITO">> \o Tag("/div")
        \o HtmlCabecalhoTabela("Mes/Periodo", "Valor")
        \o HtmlDireitos(calc.periodos_direito)
        \o Tag("/tbody") \o Tag("/table")
        \o HtmlResumo(calc)

RECURSIVE HtmlBlocos(_)
HtmlBlocos(lista) ==
    IF lista = <<>> THEN <<>>
    ELSE HtmlBloco(Head(lista)) \o HtmlBlocos(Tail(lista))

gerar_html_relatorio(lista) == HtmlCabecalho \o HtmlBlocos(lista) \o HtmlRodape

(***************************************************************************)
(* Harness of gerar_html_relatorio: report lists of one or two records     *)
(* whose free texts are plain, or hold the characters "<", ">" and "&".    *)
(***************************************************************************)
TextosHtml == {<<"a">>, <<"<", "b", ">">>, <<"a", "&", "b">>}
ObservacoesHtml == TextosHtml \cup {<<>>}
DatasHtml == {Nulo, str(Sexta)}

RegistroHtml(nome, empresa, mes, descricao, data, observacao) ==
    LET direito == <<ItemDireito(mes, 2, 200, Nulo, Nulo)>>
        afastamento == <<ItemAfastamento(descricao, 1, data, data)>>
    IN  Registro(nome, empresa, 100, 1, direito, afastamento,
                 calcular_desconto_total(direito, afastamento, 1, 100),
                 observacao, strftime(Hoje))

RegistrosHtml ==
    {RegistroHtml(nome, empresa, mes, descricao, data, observacao) :
        nome \in TextosHtml, empresa \in TextosHtml, mes \in TextosHtml,
        descricao \in TextosHtml, data \in DatasHtml, observacao \in ObservacoesHtml}

RegistroSimples == RegistroHtml(<<"a">>, <<"a">>, <<"a">>, <<"a">>, Nulo, <<>>)

EntradasHtml ==
    {<<r>> : r \in RegistrosHtml} \cup {<<RegistroSimples, r>> : r \in RegistrosHtml}

InitHtml ==
    /\ fase = "html"
    /\ entrada \in EntradasHtml
    /\ saida = SemRetorno
    /\ saida2 = SemRetorno
    /\ SemSessao

ChamarGerarHtml ==
    /\ fase = "html"
    /\ saida' = Retorno(gerar_html_relatorio(entrada))
    /\ fase' = "html_fim"
    /\ UNCHANGED <<entrada, saida2, arquivo, sessao, tela, acoes, falhas>>

NextHtml == ChamarGerarHtml

SpecHtml == InitHtml /\ [][NextHtml]_vars

(***************************************************************************)
(* Reference definitions used by the properties below.                     *)
(***************************************************************************)
DiasDeSemana(a, b) == Cardinality({d \in a .. b : weekday(d) < 5})

RECURSIVE SomaAte(_, _, _)
SomaAte(lista, campo, n) ==
    IF n = 0 THEN 0 ELSE SomaAte(lista, campo, n - 1) + lista[n][campo]

Total(lista, campo) == SomaAte(lista, campo, Len(lista))

Calculado == fase \in {"calc_1", "calc_2"}

(***************************************************************************)
(* C1: for every pair of dates contar_dias_uteis returns the number of     *)
(* Monday-to-Friday dates of [data_inicio, data_fim], and 0 when           *)
(* data_inicio > data_fim.                                                 *)
(***************************************************************************)
C1_ContagemExata ==
    fase = "dias_fim" =>
        saida = Retorno(DiasDeSemana(entrada.data_inicio, entrada.data_fim))

(* The same count, for every range that ends before date.max. *)
ContagemExataAntesDoFim ==
    (fase = "dias_fim" /\ entrada.data_fim < MAXORDINAL) =>
        saida = Retorno(DiasDeSemana(entrada.data_inicio, entrada.data_fim))

(***************************************************************************)
(* C2: contar_dias_uteis(d, d + 6 days) returns 5 for every start date d.  *)
(***************************************************************************)
C2_SeteDiasCinco ==
    (fase = "dias_fim" /\ entrada.data_fim = entrada.data_inicio + 6) =>
        saida = Retorno(5)

(* Five, for every seven-day range that ends before date.max. *)
SeteDiasCincoAntesDoFim ==
    (/\ fase = "dias_fim"
     /\ entrada.data_fim = entrada.data_inicio + 6
     /\ entrada.data_fim < MAXORDINAL) =>
        saida = Retorno(5)

(***************************************************************************)
(* C3: dias_trabalhados is the entitlement days minus the absence days;    *)
(* dias_a_descontar is 0 when dias_trabalhados >= dias_base and            *)
(* dias_base - dias_trabalhados otherwise, hence never negative.           *)
(***************************************************************************)
C3_DiasADescontar ==
    Calculado =>
        LET dt == Total(entrada.periodos_direito, "dias")
                    - Total(entrada.periodos_afastamento, "dias")
        IN  /\ saida.dias_trabalhados = dt
            /\ dt >= entrada.dias_base => saida.dias_a_descontar = 0
            /\ dt < entrada.dias_base =>
                   saida.dias_a_descontar = entrada.dias_base - dt
            /\ saida.dias_a_descontar >= 0

C3_Witness ==
    /\ fase = "calc_1"
    /\ saida.dias_trabalhados < 0
    /\ saida.dias_a_descontar = entrada.dias_base - saida.dias_trabalhados
    /\ entrada.dias_base > 0

(***************************************************************************)
(* C4: valor_a_descontar = dias_a_descontar * valor_diario and             *)
(* valor_final = total_valor_direito - valor_a_descontar, not floored at   *)
(* zero; the scenario of the specification gives 16 days worked, 5 days    *)
(* to deduct, 396.20 to deduct and 1266.84 final.                          *)
(***************************************************************************)
C4_Valores ==
    Calculado =>
        /\ saida.total_valor_direito = Total(entrada.periodos_direito, "valor")
        /\ saida.valor_a_descontar = saida.dias_a_descontar * entrada.valor_diario
        /\ saida.valor_final =
               Total(entrada.periodos_direito, "valor") - saida.valor_a_descontar
        /\ entrada = Cenario =>
               /\ saida.dias_trabalhados = 16
               /\ saida.dias_a_descontar = 5
               /\ saida.valor_a_descontar = 39620
               /\ saida.valor_final = 126684

C4_Witness ==
    /\ fase = "calc_1"
    /\ entrada = Cenario
    /\ saida.valor_final = 126684

(***************************************************************************)
(* C5: with both lists empty and dias_base >= 1 the call returns zero      *)
(* totals and dias_a_descontar = dias_base; a second call on the same      *)
(* inputs returns the same totals, and no call changes its inputs.         *)
(***************************************************************************)
ListasVazias ==
    /\ entrada.periodos_direito = <<>>
    /\ entrada.periodos_afastamento = <<>>
    /\ entrada.dias_base >= 1

Estavel == UNCHANGED <<arquivo, sessao>>

(* The step is one of the listed actions, taken with an input that fails its
   validation. *)
PassoInvalido ==
    \/ \E nome \in NomesDigitados :
            strip(nome) = <<>> /\ fase = "sessao" /\ Salvar(nome)
    \/ \E mes \in Rotulos, dias \in DiasManuais, valor \in ValoresManuais :
            (mes = <<>> \/ dias <= 0) /\ DireitoManual(mes, dias, valor) /\ ComEmpresas
    \/ \E mes \in Rotulos, e \in Nomes(Empresas),
             di \in DatasInicioDigitadas, df \in DatasFimDigitadas :
            /\ mes = <<>> \/ DiasDeSemana(di, df) <= 0
            /\ DireitoPorData(mes, e, di, df)
            /\ ComEmpresas
    \/ \E d \in Rotulos, dias \in DiasAfastamentoManuais :
            (d = <<>> \/ dias <= 0) /\ AfastamentoManual(d, dias) /\ ComEmpresas
    \/ \E d \in Rotulos, di \in DatasInicioDigitadas, df \in DatasFimDigitadas :
            /\ d = <<>> \/ DiasDeSemana(di, df) <= 0
            /\ AfastamentoPorData(d, di, df)
            /\ ComEmpresas
    \/ \E nome \in NomesFuncionario, e \in Nomes(Empresas), obs \in Observacoes :
            /\ nome = <<>> \/ periodos_direito_temp = <<>>
                           \/ periodos_afastamento_temp = <<>>
            /\ Calculo(nome, e, obs)
            /\ ComEmpresas
    \/ ultimo_calculo = 0 /\ AdicionarAoRelatorio

C6_ValidacaoSemEfeito == [][(~Estavel) => ~PassoInvalido]_vars

C6_Witness ==
    /\ NomeObrigatorio \in msgs
    /\ calculos # <<>>
    /\ periodos_direito_temp # <<>>

(***************************************************************************)
(* C7: when the write of the registry file fails in Salvar/Atualizar or in *)
(* Excluir, an error is shown and no message says the company was saved    *)
(* or removed.                                                             *)
(***************************************************************************)
EscritaFalhou == escrita.desfecho \in {"falha_abrir", "falha_escrever"}

C7_FalhaRelatada ==
    EscritaFalhou =>
        /\ ErroSalvar \in msgs
        /\ "Empresa salva com sucesso" \notin msgs
        /\ "Empresa removida" \notin msgs

(* The part of C7 the code keeps: the error is always shown, and Salvar/Atualizar
   never reports success after a failed write. *)
FalhaDeSalvarRelatada ==
    EscritaFalhou =>
        /\ ErroSalvar \in msgs
        /\ "Empresa salva com sucesso" \notin msgs

(***************************************************************************)
(* C8: after a crash inside salvar_empresas, carregar_empresas returns the *)
(* mapping that was on disk before the write, or the complete new mapping. *)
(***************************************************************************)
C8_EscritaAtomica ==
    escrita.desfecho = "crash" =>
        carregar_empresas(arquivo).retorno \in {escrita.antes, escrita.novo}

(***************************************************************************)
(* C9: carregar_empresas returns an empty mapping, silently, when the file *)
(* does not exist, and an empty mapping after showing an error when the    *)
(* file exists but cannot be read or parsed; it never raises, and the      *)
(* session goes on.                                                        *)
(***************************************************************************)
Integro(arq) ==
    /\ arq.legivel
    /\ Len(arq.conteudo) >= 2
    /\ Head(arq.conteudo).t = "{"
    /\ arq.conteudo[Len(arq.conteudo)].t = "}"
    /\ \A i \in 2 .. Len(arq.conteudo) - 1 : arq.conteudo[i].t = "par"

C9_CargaDegradada ==
    fase = "sessao" =>
        /\ carga.exc = ""
        /\ ~carga.visto.existe => (carga.retorno = <<>> /\ ~carga.erro)
        /\ (carga.visto.existe /\ ~Integro(carga.visto)) =>
               (carga.retorno = <<>> /\ carga.erro /\ ErroCarregar \in msgs)
        /\ (carga.visto.existe /\ Integro(carga.visto)) =>
               (~carga.erro /\ Len(carga.retorno) = Len(carga.visto.conteudo) - 2)

(* The registry file cannot be read; a company was saved all the same, and the
   run that followed showed the load error again. *)
C9_Witness ==
    /\ carga.visto.existe
    /\ ~Integro(carga.visto)
    /\ carga.erro
    /\ escrita.desfecho = "ok"
    /\ acoes >= 2

(***************************************************************************)
(* C10: a record of the report list keeps every field through every       *)
(* action but Limpar Tudo (the end of the process ends the session and its *)
(* report list with it).                                                   *)
(***************************************************************************)
C10_RegistroImutavel ==
    [][\/ LimparTudo
       \/ escrita'.desfecho = "crash"
       \/ \A i \in 1 .. Len(calculos) :
            /\ i <= Len(calculos')
            /\ heap'[calculos'[i]] = heap[calculos[i]]
      ]_vars

(* A record is in the report list, items were added again and Calcular has
   built another record since. *)
C10_Witness ==
    /\ calculos # <<>>
    /\ ultimo_calculo # 0
    /\ \A i \in 1 .. Len(calculos) : calculos[i] # ultimo_calculo
    /\ periodos_direito_temp # <<>>

(***************************************************************************)
(* C11: every monetary total of a record is a sum of item values fixed     *)
(* when the items were added: the 'valor' of an entitlement item never     *)
(* changes once added, and no total of a record depends on a daily rate    *)
(* other than the one in force when its items were created, whatever rate  *)
(* change or company switch happens before Calcular.                       *)
(***************************************************************************)
PorData(item) == item.data_inicio # Nulo

(* A step removes items, empties the list or appends one item: it rewrites none. *)
ItensFixos ==
    \/ periodos_direito_temp' = periodos_direito_temp
    \/ periodos_direito_temp' = <<>>
    \/ \E idx \in 1 .. Len(periodos_direito_temp) :
            periodos_direito_temp' = Pop(periodos_direito_temp, idx)
    \/ /\ Len(periodos_direito_temp') = Len(periodos_direito_temp) + 1
       /\ SubSeq(periodos_direito_temp', 1, Len(periodos_direito_temp))
              = periodos_direito_temp

(* The deduction of a record is priced at the rate its dated items were
   priced at: valor_a_descontar / dias_a_descontar = valor / dias. *)
TaxaDaCriacao(reg) ==
    \A i \in 1 .. Len(reg.periodos_direito) :
        LET item == reg.periodos_direito[i]
        IN  PorData(item) =>
                item.dias * reg.totais.valor_a_descontar
                    = item.valor * reg.totais.dias_a_descontar

TotalDosItens(reg) ==
    reg.totais.total_valor_direito = Total(reg.periodos_direito, "valor")

C11_TotaisNaCriacao ==
    /\ [][ItensFixos]_vars
    /\ [](\A r \in DOMAIN heap : TotalDosItens(heap[r]) /\ TaxaDaCriacao(heap[r]))

(* The parts of C11 the code keeps: items are never rewritten, and the
   entitlement total of every record is the sum of its items' values. *)
ValorDoItemFixo == [][ItensFixos]_vars

TotalDireitoSomaDosItens == \A r \in DOMAIN heap : TotalDosItens(heap[r])

(***************************************************************************)
(* C12: gerar_html_relatorio inserts the employee name, the company name,  *)
(* the item labels and descriptions and the note as literal text: their    *)
(* "<", ">" and "&" are escaped, so the document has the tags and entities *)
(* of the same report written with plain texts, and no more.               *)
(***************************************************************************)
Ocorrencias(texto, c) == Cardinality({i \in DOMAIN texto : texto[i] = c})

TextoPlano(t) == IF t = <<>> THEN <<>> ELSE <<"a">>

ItemPlano(item, campo) == [item EXCEPT ![campo] = TextoPlano(item[campo])]

RegistroPlano(reg) ==
    [reg EXCEPT !.nome_funcionario = TextoPlano(@),
                !.empresa = TextoPlano(@),
                !.observacao = TextoPlano(@),
                !.periodos_direito =
                    [i \in DOMAIN @ |-> ItemPlano(@[i], "mes")],
                !.periodos_afastamento =
                    [i \in DOMAIN @ |-> ItemPlano(@[i], "descricao")]]

RelatorioPlano(lista) == [i \in DOMAIN lista |-> RegistroPlano(lista[i])]

C12_TextoLiteral ==
    fase = "html_fim" =>
        \A c \in {"<", ">", "&"} :
            Ocorrencias(saida.valor, c)
                = Ocorrencias(gerar_html_relatorio(RelatorioPlano(entrada)), c)

(* The part of C12 the code keeps: a report whose texts are plain has no
   entity and as many "<" as ">". *)
SemMarcas(t) == \A i \in DOMAIN t : t[i] \notin {"<", ">", "&"}

RegistroSemMarcas(reg) ==
    /\ SemMarcas(reg.nome_funcionario)
    /\ SemMarcas(reg.empresa)
    /\ SemMarcas(reg.observacao)
    /\ \A i \in DOMAIN reg.periodos_direito : SemMarcas(reg.periodos_direito[i].mes)
    /\ \A i \in DOMAIN reg.periodos_afastamento :
            SemMarcas(reg.periodos_afastamento[i].descricao)

TextoPlanoLiteral ==
    (fase = "html_fim" /\ \A i \in DOMAIN entrada : RegistroSemMarcas(entrada[i])) =>
        /\ Ocorrencias(saida.valor, "&") = 0
        /\ Ocorrencias(saida.valor, "<") = Ocorrencias(saida.valor, ">")
        /\ saida.valor = gerar_html_relatorio(RelatorioPlano(entrada))

(***************************************************************************)
(* C13: every record of the report list is consistent with itself: its     *)
(* totals are calcular_desconto_total of its own item lists, base days and *)
(* daily rate; its employee name is not blank; both item lists are         *)
(* non-empty and every item has days > 0.                                  *)
(***************************************************************************)
RegistroConsistente(reg) ==
    /\ reg.totais = calcular_desconto_total(reg.periodos_direito,
                                            reg.periodos_afastamento,
                                            reg.dias_base, reg.valor_diario)
    /\ strip(reg.nome_funcionario) # <<>>
    /\ reg.periodos_direito # <<>>
    /\ reg.periodos_afastamento # <<>>
    /\ \A i \in 1 .. Len(reg.periodos_direito) : reg.periodos_direito[i].dias > 0
    /\ \A i \in 1 .. Len(reg.periodos_afastamento) :
            reg.periodos_afastamento[i].dias > 0

C13_RegistrosConsistentes ==
    \A i \in 1 .. Len(calculos) : RegistroConsistente(heap[calculos[i]])

(* A record is in the report list and the company's rate has changed since. *)
C13_Witness ==
    /\ calculos # <<>>
    /\ Empresas # <<>>
    /\ Empresas[1].nome = heap[calculos[1]].empresa
    /\ Empresas[1].valor_diario # heap[calculos[1]].valor_diario

(***************************************************************************)
(* C14: Adicionar ao Relatorio, when a last calculation exists, appends    *)
(* the record of the most recent successful Calcular to the end of the     *)
(* report list (one more record, the earlier ones in their order), empties *)
(* both temporary lists and keeps the last calculation; that record is as  *)
(* Calcular stored it, whatever items were added or removed since, and     *)
(* pressing the button again appends the same record once more.            *)
(***************************************************************************)
UltimoMantido ==
    /\ ultimo_calculo' = ultimo_calculo
    /\ heap'[ultimo_calculo'] = heap[ultimo_calculo]

Anexado ==
    /\ calculos' = Append(calculos, ultimo_calculo)
    /\ \A i \in 1 .. Len(calculos) : heap'[calculos'[i]] = heap[calculos[i]]
    /\ periodos_direito_temp' = <<>>
    /\ periodos_afastamento_temp' = <<>>
    /\ UltimoMantido

C14_AdicionarAoRelatorio ==
    [][/\ (ultimo_calculo # 0 /\ AdicionarAoRelatorio) => Anexado
       /\ \/ ultimo_calculo = 0
          \/ UltimoMantido
          \/ escrita'.desfecho = "crash"
          \/ LimparTudo
          \/ Calcular
      ]_vars

(* The button was pressed twice after one Calcular: the report list holds the
   same record twice, and it is still the last calculation. *)
C14_Witness ==
    /\ Len(calculos) >= 2
    /\ calculos[Len(calculos)] = calculos[Len(calculos) - 1]
    /\ ultimo_calculo = calculos[Len(calculos)]
    /\ periodos_direito_temp = <<>>
    /\ periodos_afastamento_temp = <<>>

====
